---- MODULE Spec2Model ----
(***************************************************************************)
(* Model of the tenant routing / context propagation layer                 *)
(* (platform_core/shared_services) and of the generic execution engine     *)
(* (platform_core/agent_orchestration/base_agent.py, audit.py).            *)
(*                                                                         *)
(* Two specifications share the variables:                                 *)
(*   Spec    the execution engine: BaseAgent.execute, step by step         *)
(*           between its awaits, with the audit store and the tenant's     *)
(*           usage counter;                                                *)
(*   SpecMW  TenantRoutingMiddleware.dispatch for concurrently handled     *)
(*           requests, with the ContextVar that carries the TenantContext. *)
(*                                                                         *)
(* Confidence values are in hundredths (85 stands for 0.85); time is in    *)
(* seconds.                                                                *)
(***************************************************************************)
EXTENDS Integers, Sequences, FiniteSets, TLC

VARIABLES
    directory,             \* Tenant Directory: tenant_id -> tenant document
    stores,                \* database_name -> sequence of agent_audit_logs documents
    enable_audit_logging,  \* config.enable_audit_logging
    next_id,               \* source of fresh execution ids (uuid4)
    calls,                 \* number of execute calls started so far
    ex,                    \* per execute call in flight: its position and locals
    tenant_context_var,    \* the ContextVar _tenant_context: context key -> value
    req,                   \* per request: position in dispatch and locals
    cache,                 \* the redis cache of the resolver: key -> entry
    now                    \* the wall clock, in seconds

vars == <<directory, stores, enable_audit_logging, next_id, calls, ex,
          tenant_context_var, req, cache, now>>

----------------------------------------------------------------------------
(* Bounds *)

MaxCalls == 2          \* execute calls per behaviour
MaxElapsed == 5        \* the clock of one execute call saturates here
MaxReads == 2          \* get_tenant_context calls a handler makes

----------------------------------------------------------------------------
(* Program constants *)

agent_max_retries == 3            \* config.agent_max_retries
agent_confidence_threshold == 85  \* config.agent_confidence_threshold (0.85)
wait_min == 2                     \* wait_exponential(min=2)
wait_max == 10                    \* wait_exponential(max=10)
timeout_seconds == 3              \* the timeout_seconds the agents are built with

----------------------------------------------------------------------------
(* Values *)

Min(a, b) == IF a < b THEN a ELSE b
Max(a, b) == IF a > b THEN a ELSE b

RECURSIVE Pow2(_)
Pow2(n) == IF n <= 0 THEN 1 ELSE 2 * Pow2(n - 1)

TenantIds == {"t1", "t2"}
AgentTypes == {"insurance_verification", "medical_coding"}
Execs == {"e1"}

\* Optional[...] values that are absent
None == [kind |-> "None"]
NoStr == "None"

TenantStatus == {"provisioning", "active", "suspended", "deactivated", "migrating"}

\* PlatformConfig.get_tenant_db_name: prefix followed by the tenant id
get_tenant_db_name_prefix_only(tenant_id) == <<"talkdoc_tenant_", "">>
get_tenant_db_name(tenant_id) == <<"talkdoc_tenant_", tenant_id>>

DbNames == {get_tenant_db_name(t) : t \in TenantIds}

\* A tenant document as provisioned: t1 has the agent enabled, t2 carries an
\* explicit False for one agent type and no key at all for the other.
enabled_agents_of(t) ==
    IF t = "t1"
    THEN [a \in AgentTypes |-> TRUE]
    ELSE [a \in {"insurance_verification"} |-> FALSE]

\* The routing keys of the provisioned tenants; <<>> is no custom domain
subdomain_of(t) == t
primary_domain_of(t) == IF t = "t1" THEN <<"clinic", "com">> ELSE <<>>

Tenant(t, status) ==
    [tenant_id |-> t,
     subdomain |-> subdomain_of(t),
     primary_domain |-> primary_domain_of(t),
     status |-> status,
     status_reason |-> NoStr,
     database_name |-> get_tenant_db_name(t),
     enabled_agents |-> enabled_agents_of(t),
     total_agent_actions |-> 0,
     updated_at |-> 0]

\* TenantContext.__init__ as dispatch calls it: db = mongo_client[tenant.database_name]
TenantContext(tenant) == [kind |-> "TenantContext", tenant |-> tenant, db |-> tenant.database_name]

\* TenantContext.is_agent_enabled: enabled_agents.get(agent_type, False)
is_agent_enabled_default_on(ctx, agent_type) ==
    IF agent_type \in DOMAIN ctx.tenant.enabled_agents
    THEN ctx.tenant.enabled_agents[agent_type]
    ELSE TRUE
is_agent_enabled(ctx, agent_type) ==
    IF agent_type \in DOMAIN ctx.tenant.enabled_agents
    THEN ctx.tenant.enabled_agents[agent_type]
    ELSE FALSE

----------------------------------------------------------------------------
(* The ContextVar *)

\* A ContextVar holds one value per execution context; every request is
\* handled in a task of its own, so the key is the request.
ContextKeyShared(r) == 1
ContextKey(r) == r

get_tenant_context(cv, r) == cv[ContextKey(r)]

set_tenant_context(cv, r, context) == [cv EXCEPT ![ContextKey(r)] = context]

clear_tenant_context_noop(cv, r) == cv
clear_tenant_context(cv, r) == [cv EXCEPT ![ContextKey(r)] = None]

----------------------------------------------------------------------------
(* The resolver cache *)

\* The X-Tenant-ID headers requests carry; "zz" names no tenant
Headers == {NoStr, "t1", "t2", "zz"}

\* cache_key = f"tenant:{by}:{identifier}"
cache_key(by, identifier) == <<"tenant", by, identifier>>

CacheKeys == {cache_key("id", h) : h \in Headers \ {NoStr}}

----------------------------------------------------------------------------
(* The execution engine: values *)

\* Sentinel for a constructor argument that was not provided (Python None)
NotProvided == -1

MaxRetriesArgs == {NotProvided, 0, 1, 2}

\* BaseAgent.__init__: max_retries or config.agent_max_retries
InitMaxRetries(arg) == IF arg = NotProvided \/ arg = 0 THEN agent_max_retries ELSE arg

\* What _execute_internal may do on one attempt
Outputs == {"O"}
Confidences == {-5, 84, 85, 90, 105}
OpDurations == {1, 4}
\* ValueError: a domain error; RuntimeError: an unexpected fault
OpExceptions == {"ValueError", "RuntimeError", "TimeoutError"}
ExceptionClasses == OpExceptions \cup {"ValidationError", "RetryError"}

FinalStatuses == {"success", "failed", "timeout"}

IdleExec ==
    [pc |-> "idle", agent_type |-> NoStr, max_retries_arg |-> NotProvided, max_retries |-> 0,
     tenant_context |-> None, tenant_id |-> NoStr, execution_id |-> 0,
     user_id |-> NoStr, started_at |-> 0,
     attempts |-> 0, fails |-> 0, returned |-> FALSE, op_confidence |-> 0,
     gated |-> FALSE,
     elapsed |-> 0, result |-> None, audit |-> "none", metrics |-> "none"]

\* wait_exponential(multiplier=1, min=2, max=10) after the n-th attempt
wait_exponential(n) == Max(wait_min, Min(Pow2(n - 1), wait_max))

\* stop_after_attempt(self.max_retries + 1)
stop_after_attempt_off_by_one(x, n) == n >= x.max_retries
stop_after_attempt(x, n) == n >= x.max_retries + 1

\* needs_review = confidence < config.agent_confidence_threshold
NeedsReviewInclusive(confidence) == confidence <= agent_confidence_threshold
NeedsReview(confidence) == confidence < agent_confidence_threshold

\* The fields of AgentResult every branch sets, the others at their defaults
BaseResult(x, status) ==
    [execution_id |-> x.execution_id, agent_type |-> x.agent_type,
     status |-> status, output |-> NoStr, confidence |-> 0, error |-> NoStr,
     retry_count |-> 0, tenant_id |-> x.tenant_id,
     user_id |-> x.user_id, started_at |-> x.started_at,
     needs_human_review |-> FALSE, review_reason |-> NoStr]

\* execute, lines 196-222
SuccessResultNoOutput(x, output, confidence) ==
    [BaseResult(x, "success") EXCEPT
        !.confidence = confidence,
        !.needs_human_review = NeedsReview(confidence),
        !.review_reason = IF NeedsReview(confidence) THEN "Low confidence score" ELSE NoStr]
SuccessResult(x, output, confidence) ==
    [BaseResult(x, "success") EXCEPT
        !.output = output,
        !.confidence = confidence,
        !.needs_human_review = NeedsReview(confidence),
        !.review_reason = IF NeedsReview(confidence) THEN "Low confidence score" ELSE NoStr]

\* except RetryError, lines 231-253
RetryErrorResult(x) ==
    [BaseResult(x, "failed") EXCEPT
        !.error = "Agent failed after retries",
        !.retry_count = x.max_retries,
        !.needs_human_review = TRUE,
        !.review_reason = "Agent execution failed after retries"]

\* except TimeoutError, lines 255-274
TimeoutResult(x) ==
    [BaseResult(x, "timeout") EXCEPT
        !.error = "Agent execution exceeded timeout",
        !.needs_human_review = TRUE,
        !.review_reason = "Agent execution timeout"]

\* except Exception, lines 276-297
ErrorResultRetrying(x, exc) ==
    [BaseResult(x, "retrying") EXCEPT
        !.error = exc,
        !.needs_human_review = TRUE,
        !.review_reason = "Agent execution error"]
ErrorResult(x, exc) ==
    [BaseResult(x, "failed") EXCEPT
        !.error = exc,
        !.needs_human_review = TRUE,
        !.review_reason = "Agent execution error"]

\* Which except clause of execute takes an exception raised in the try block
ExceptClauseNarrow(exc) ==
    CASE exc = "RetryError" -> "RetryError"
      [] exc = "TimeoutError" -> "TimeoutError"
      [] exc = "ValueError" -> "Exception"
      [] OTHER -> "propagate"
ExceptClause(exc) ==
    CASE exc = "RetryError" -> "RetryError"
      [] exc = "TimeoutError" -> "TimeoutError"
      [] exc \in ExceptionClasses -> "Exception"
      [] OTHER -> "propagate"

\* The result the except clauses build; None when the exception leaves execute
HandleException(x, exc) ==
    CASE ExceptClause(exc) = "RetryError" -> RetryErrorResult(x)
      [] ExceptClause(exc) = "TimeoutError" -> TimeoutResult(x)
      [] ExceptClause(exc) = "Exception" -> ErrorResult(x, exc)
      [] OTHER -> None

\* AgentResult.confidence: Field(ge=0.0, le=1.0)
ValidConfidenceAny(confidence) == TRUE
ValidConfidence(confidence) == confidence >= 0 /\ confidence <= 100

\* The try block after _execute_with_retry returned: the AgentResult
\* constructor validates its fields and raises inside the try block
OnReturn(x, output, confidence) ==
    IF ValidConfidence(confidence)
    THEN SuccessResult(x, output, confidence)
    ELSE HandleException(x, "ValidationError")

\* The feature gate, line 187
GateOpen(tenant_context, agent_type) == FALSE
GateBlocksNoContext(tenant_context, agent_type) ==
    IF tenant_context = None THEN TRUE ELSE ~is_agent_enabled(tenant_context, agent_type)
GateBlocks(tenant_context, agent_type) ==
    tenant_context # None /\ ~is_agent_enabled(tenant_context, agent_type)

\* Where execute goes once result is bound, lines 299-316
AfterResult(x, result) ==
    IF result = None THEN "raised"
    ELSE IF x.tenant_context = None THEN "done"
    ELSE IF enable_audit_logging THEN "audit"
    ELSE "metrics"

\* _log_to_audit: the AgentAuditLog built from the result
AuditLogOf(result) ==
    [log_id |-> result.execution_id,
     tenant_id |-> IF result.tenant_id = NoStr THEN "" ELSE result.tenant_id,
     agent_type |-> result.agent_type,
     user_id |-> result.user_id,
     executed_at |-> result.started_at,
     status |-> result.status,
     confidence |-> result.confidence,
     error |-> result.error,
     retry_count |-> result.retry_count,
     needs_human_review |-> result.needs_human_review,
     review_reason |-> result.review_reason,
     reviewed_by |-> NoStr, reviewed_at |-> None, review_notes |-> NoStr]

\* AgentAuditService.create_log: insert_one into the given database
create_log_twice(st, audit_log, db) ==
    [st EXCEPT ![db] = Append(Append(@, audit_log), audit_log)]
create_log(st, audit_log, db) == [st EXCEPT ![db] = Append(@, audit_log)]

\* The database _log_to_audit writes to: tenant_context.db
AuditDbOther(x) == CHOOSE d \in DbNames : d # x.tenant_context.db
AuditDb(x) == x.tenant_context.db

\* TenantDBService.increment_agent_actions: $inc on the tenant's document,
\* $set of updated_at to the time of the call
increment_agent_actions_set(dir, tenant_id, count) ==
    IF tenant_id \in DOMAIN dir
    THEN [dir EXCEPT ![tenant_id].total_agent_actions = count,
                     ![tenant_id].updated_at = now]
    ELSE dir
increment_agent_actions(dir, tenant_id, count) ==
    IF tenant_id \in DOMAIN dir
    THEN [dir EXCEPT ![tenant_id].total_agent_actions = @ + count,
                     ![tenant_id].updated_at = now]
    ELSE dir

----------------------------------------------------------------------------
(* The execution engine: BaseAgent.execute *)

Requests == {1, 2}

IdleReq ==
    [pc |-> "idle", request |-> None, tenant |-> None, seen |-> None,
     reads |-> 0, outcome |-> NoStr, detail |-> NoStr, lookups |-> <<>>,
     arrived_at |-> 0, arrived_status |-> NoStr, resolved |-> None, cached |-> NoStr,
     candidate |-> NoStr, response |-> <<>>]

\* The tenant contexts dispatch can have installed when execute is called:
\* none, or the context of a tenant whose status is active
InstalledContexts ==
    {None} \cup {TenantContext(directory[t]) :
                    t \in {u \in TenantIds : directory[u].status = "active"}}

\* Binds result and moves on to the audit and metrics steps
Bind(e, x, result) ==
    ex' = [ex EXCEPT ![e] = [x EXCEPT !.result = result, !.pc = AfterResult(x, result)]]

\* execute up to its first await, lines 166-191, for an agent of the given
\* type built with the given max_retries argument, under the given context
StartWith(e, agent_type, arg, context) ==
    LET x == [IdleExec EXCEPT
                !.agent_type = agent_type,
                !.max_retries_arg = arg,
                !.max_retries = InitMaxRetries(arg),
                !.tenant_context = context,
                !.tenant_id = IF context = None THEN NoStr ELSE context.tenant.tenant_id,
                !.started_at = now,
                !.execution_id = next_id]
    IN  /\ IF GateBlocks(context, agent_type)
           THEN Bind(e, [x EXCEPT !.gated = TRUE], HandleException(x, "ValueError"))
           ELSE ex' = [ex EXCEPT ![e] = [x EXCEPT !.pc = "attempt"]]
        /\ next_id' = next_id + 1
        /\ calls' = calls + 1

ExecuteStart(e) ==
    /\ ex[e].pc = "idle"
    /\ calls < MaxCalls
    /\ \E agent_type \in AgentTypes, arg \in MaxRetriesArgs, context \in InstalledContexts :
        StartWith(e, agent_type, arg, context)
    /\ UNCHANGED <<directory, stores, enable_audit_logging, tenant_context_var, req,
                   cache, now>>

\* One call of _execute_internal under the retry decorator, lines 332-340:
\* it takes some time and returns or raises; an exception is retried unless
\* this was the last attempt, and then it is re-raised as it is (reraise=True)
Attempt(e) ==
    /\ ex[e].pc = "attempt"
    /\ \E d \in OpDurations :
        LET n == ex[e].attempts + 1
            x == [ex[e] EXCEPT !.attempts = n,
                               !.elapsed = Min(@ + d, MaxElapsed)]
        IN  \/ \E output \in Outputs, confidence \in Confidences :
                 Bind(e, [x EXCEPT !.returned = TRUE, !.op_confidence = confidence],
                      OnReturn(x, output, confidence))
            \/ \E exc \in OpExceptions :
                 LET y == [x EXCEPT !.fails = @ + 1]
                 IN  IF stop_after_attempt(y, n)
                     THEN Bind(e, y, HandleException(y, exc))
                     ELSE ex' = [ex EXCEPT ![e] = [y EXCEPT !.pc = "backoff"]]
    /\ UNCHANGED <<directory, stores, enable_audit_logging, next_id, calls,
                   tenant_context_var, req,
                   cache, now>>

\* The sleep between two attempts
Backoff(e) ==
    /\ ex[e].pc = "backoff"
    /\ ex' = [ex EXCEPT ![e].elapsed = Min(@ + wait_exponential(ex[e].attempts), MaxElapsed),
                        ![e].pc = "attempt"]
    /\ UNCHANGED <<directory, stores, enable_audit_logging, next_id, calls,
                   tenant_context_var, req,
                   cache, now>>

\* except Exception around the audit write, lines 303-304: the failure is
\* logged and execute goes on to the usage counter
OnAuditFailureRaises == "raised"
OnAuditFailure == "metrics"

\* except Exception around the increment, lines 313-314: logged, execute returns
OnMetricsFailureRaises == "raised"
OnMetricsFailure == "done"

\* lines 299-304: the audit write, whose failure is logged and swallowed
Audit(e) ==
    /\ ex[e].pc = "audit"
    /\ \/ /\ stores' = create_log(stores, AuditLogOf(ex[e].result), AuditDb(ex[e]))
          /\ ex' = [ex EXCEPT ![e].audit = "written", ![e].pc = "metrics"]
       \/ /\ stores' = stores
          /\ ex' = [ex EXCEPT ![e].audit = "failed", ![e].pc = OnAuditFailure]
    /\ UNCHANGED <<directory, enable_audit_logging, next_id, calls,
                   tenant_context_var, req,
                   cache, now>>

\* lines 306-316: the usage counter, whose failure is logged and swallowed
Metrics(e) ==
    /\ ex[e].pc = "metrics"
    /\ \/ /\ directory' = increment_agent_actions(directory, ex[e].tenant_id, 1)
          /\ ex' = [ex EXCEPT ![e].metrics = "incremented", ![e].pc = "done"]
       \/ /\ directory' = directory
          /\ ex' = [ex EXCEPT ![e].metrics = "failed", ![e].pc = OnMetricsFailure]
    /\ UNCHANGED <<stores, enable_audit_logging, next_id, calls,
                   tenant_context_var, req,
                   cache, now>>

\* The caller has the result; the call is over
Return(e) ==
    /\ ex[e].pc = "done"
    /\ ex' = [ex EXCEPT ![e] = IdleExec]
    /\ UNCHANGED <<directory, stores, enable_audit_logging, next_id, calls,
                   tenant_context_var, req,
                   cache, now>>

Init ==
    /\ directory = [t \in TenantIds |-> Tenant(t, "active")]
    /\ stores = [d \in DbNames |-> <<>>]
    /\ enable_audit_logging \in BOOLEAN
    /\ next_id = 1
    /\ calls = 0
    /\ ex = [e \in Execs |-> IdleExec]
    /\ tenant_context_var = [r \in Requests |-> None]
    /\ req = [r \in Requests |-> IdleReq]
    /\ cache = [k \in CacheKeys |-> None]
    /\ now = 0

Next ==
    \E e \in Execs :
        \/ ExecuteStart(e)
        \/ Attempt(e)
        \/ Backoff(e)
        \/ Audit(e)
        \/ Metrics(e)
        \/ Return(e)

Spec == Init /\ [][Next]_vars

----------------------------------------------------------------------------
(* Tenant resolution: TenantRoutingMiddleware._identify_tenant *)

\* A host is the sequence of its dot-separated labels, the port removed;
\* <<>> is a missing Host header
DigitLabels == {"127", "0", "1"}
ReservedSubdomains == {"www", "api", "admin"}
\* Labels with a character outside [a-z0-9-], the class of subdomain_pattern
\* (line 58); TenantDomainConfig.validate_subdomain accepts the underscore
OutOfPatternLabels == {"my_clinic"}

\* TenantDBService.get_tenant_by_id / _by_subdomain / _by_domain: find_one
get_tenant_by_id(dir, tenant_id) ==
    IF tenant_id \in DOMAIN dir THEN dir[tenant_id] ELSE None

get_tenant_by_subdomain(dir, subdomain) ==
    IF \E t \in DOMAIN dir : dir[t].subdomain = subdomain
    THEN dir[CHOOSE t \in DOMAIN dir : dir[t].subdomain = subdomain]
    ELSE None

get_tenant_by_domain_never(dir, domain) == None
get_tenant_by_domain_default(dir, domain) ==
    IF \E t \in DOMAIN dir : dir[t].primary_domain = domain
    THEN dir[CHOOSE t \in DOMAIN dir : dir[t].primary_domain = domain]
    ELSE dir["t1"]
get_tenant_by_domain(dir, domain) ==
    IF \E t \in DOMAIN dir : dir[t].primary_domain = domain
    THEN dir[CHOOSE t \in DOMAIN dir : dir[t].primary_domain = domain]
    ELSE None

\* _extract_subdomain: no subdomain for localhost and numeric hosts; else the
\* first label when subdomain_pattern matches the host (a first label of
\* letters, digits and hyphens, then a dot), unless it is a reserved one
extract_subdomain(host) ==
    IF host = <<"localhost">> \/ host = <<"127", "0", "0", "1">>
       \/ (host # <<>> /\ \A i \in 1..Len(host) : host[i] \in DigitLabels)
    THEN NoStr
    ELSE IF Len(host) >= 2 /\ host[1] \notin OutOfPatternLabels
            /\ host[1] \notin ReservedSubdomains
    THEN host[1]
    ELSE NoStr

\* _identify_tenant with no redis client (api_gateway/main.py builds the
\* middleware without one): every _get_tenant_cached is a directory read
identify_tenant_host_first(dir, request) ==
    LET by_header == IF request.header # NoStr
                     THEN get_tenant_by_id(dir, request.header) ELSE None
        subdomain == extract_subdomain(request.host)
        by_subdomain == IF subdomain # NoStr
                        THEN get_tenant_by_subdomain(dir, subdomain) ELSE None
    IN  IF by_subdomain # None /\ request.host # <<>> THEN by_subdomain
        ELSE IF by_header # None THEN by_header
        ELSE IF request.host = <<>> THEN None
        ELSE get_tenant_by_domain(dir, request.host)
identify_tenant(dir, request) ==
    LET by_header == IF request.header # NoStr
                     THEN get_tenant_by_id(dir, request.header) ELSE None
        subdomain == extract_subdomain(request.host)
        by_subdomain == IF subdomain # NoStr
                        THEN get_tenant_by_subdomain(dir, subdomain) ELSE None
    IN  IF by_header # None THEN by_header
        ELSE IF request.host = <<>> THEN None
        ELSE IF by_subdomain # None THEN by_subdomain
        ELSE get_tenant_by_domain(dir, request.host)

\* _is_platform_endpoint: the path starts with one of the platform prefixes
is_platform_endpoint(request) == request.path = "/health"

\* The requests that arrive
MWRequests ==
    {[path |-> "/health", header |-> NoStr, host |-> <<"localhost">>],
     [path |-> "/agents", header |-> "t1", host |-> <<>>],
     [path |-> "/agents", header |-> "t2", host |-> <<"t1", "app", "com">>],
     [path |-> "/agents", header |-> "zz", host |-> <<>>],
     [path |-> "/agents", header |-> NoStr, host |-> <<"t2", "app", "com">>],
     [path |-> "/agents", header |-> NoStr, host |-> <<"clinic", "com">>],
     [path |-> "/agents", header |-> NoStr, host |-> <<"www", "app", "com">>]}

----------------------------------------------------------------------------
(* TenantRoutingMiddleware.dispatch *)

\* The response or exception dispatch ends with, and its finally clause; the
\* handler's frame is gone by then
FinishWith(r, outcome, detail) ==
    /\ req' = [req EXCEPT ![r].pc = "finished", ![r].outcome = outcome,
                          ![r].detail = detail,
                          ![r].seen = None, ![r].reads = 0,
                          ![r].arrived_at = 0, ![r].resolved = None]
    /\ tenant_context_var' = clear_tenant_context(tenant_context_var, r)

Finish(r, outcome) == FinishWith(r, outcome, NoStr)

\* Line 91: only an active tenant is served
ServiceableOrMigrating(tenant) == tenant.status \in {"active", "migrating"}
Serviceable(tenant) == tenant.status = "active"

\* Line 99: the detail of the 503
UnavailableDetail(tenant) ==
    IF tenant.status_reason # NoStr THEN tenant.status_reason ELSE "Tenant is not active"

\* Lines 79-125, once _identify_tenant has returned tenant
Dispatch(r, tenant) ==
    IF tenant = None THEN Finish(r, "404")
    ELSE IF ~Serviceable(tenant) THEN FinishWith(r, "503", UnavailableDetail(tenant))
    ELSE /\ tenant_context_var' =
               set_tenant_context(tenant_context_var, r, TenantContext(tenant))
         /\ req' = [req EXCEPT ![r].tenant = tenant, ![r].pc = "handler"]

\* A request arrives, lines 71-77: a platform endpoint goes straight to the
\* handler, outside the try block; any other awaits the tenant lookup
Arrive(r) ==
    /\ req[r].pc = "idle"
    /\ \E request \in MWRequests :
        req' = [req EXCEPT ![r] = [IdleReq EXCEPT
                    !.request = request,
                    !.pc = IF is_platform_endpoint(request) THEN "platform" ELSE "identify"]]
    /\ UNCHANGED <<directory, stores, enable_audit_logging, next_id, calls, ex,
                   tenant_context_var,
                   cache, now>>

\* Lines 77-125: the lookup returns and dispatch runs up to call_next
Identify(r) ==
    /\ req[r].pc = "identify"
    /\ Dispatch(r, identify_tenant(directory, req[r].request))
    /\ UNCHANGED <<directory, stores, enable_audit_logging, next_id, calls, ex,
                   cache, now>>

\* The directory read raises: except Exception, lines 134-144, then finally
IdentifyFails(r) ==
    /\ req[r].pc = "identify"
    /\ Finish(r, "500")
    /\ UNCHANGED <<directory, stores, enable_audit_logging, next_id, calls, ex,
                   cache, now>>

\* Downstream code calls get_tenant_context at one of its suspension points
HandlerRead(r) ==
    /\ req[r].pc \in {"handler", "platform"}
    /\ req[r].reads < MaxReads
    /\ req' = [req EXCEPT ![r].seen = get_tenant_context(tenant_context_var, r),
                          ![r].reads = @ + 1]
    /\ UNCHANGED <<directory, stores, enable_audit_logging, next_id, calls, ex,
                   tenant_context_var,
                   cache, now>>

\* call_next returns the response, lines 125-130, then finally
HandlerReturns(r) ==
    /\ req[r].pc = "handler"
    /\ Finish(r, "200")
    /\ UNCHANGED <<directory, stores, enable_audit_logging, next_id, calls, ex,
                   cache, now>>

\* call_next raises: an HTTPException is re-raised, anything else becomes a
\* 500, lines 132-144, then finally
HandlerRaises(r) ==
    /\ req[r].pc = "handler"
    /\ \E outcome \in {"http_exception", "500"} : Finish(r, outcome)
    /\ UNCHANGED <<directory, stores, enable_audit_logging, next_id, calls, ex,
                   cache, now>>

\* A platform endpoint's handler ends, line 73: no try block around it
PlatformReturns(r) ==
    /\ req[r].pc = "platform"
    /\ \E outcome \in {"200", "raised"} :
        req' = [req EXCEPT ![r].pc = "finished", ![r].outcome = outcome]
    /\ UNCHANGED <<directory, stores, enable_audit_logging, next_id, calls, ex,
                   tenant_context_var,
                   cache, now>>

\* The request's task ends and with it its execution context
Complete(r) ==
    /\ req[r].pc = "finished"
    /\ req' = [req EXCEPT ![r] = IdleReq]
    /\ tenant_context_var' = [tenant_context_var EXCEPT ![ContextKey(r)] = None]
    /\ UNCHANGED <<directory, stores, enable_audit_logging, next_id, calls, ex,
                   cache, now>>

\* TenantDBService.update_tenant_status, called by the platform admin: the
\* stored reason is replaced only when a reason is given
\* The admin gives a reason when suspending or deactivating, none otherwise
StatusReasonGiven(status) ==
    IF status \in {"suspended", "deactivated"} THEN "non-payment" ELSE NoStr

update_tenant_status(dir, tenant_id, status, status_reason, at) ==
    [dir EXCEPT ![tenant_id].status = status,
                ![tenant_id].updated_at = at,
                ![tenant_id].status_reason = IF status_reason # NoStr THEN status_reason ELSE @]

UpdateTenantStatus ==
    /\ \E t \in TenantIds, status \in TenantStatus :
        /\ directory[t].status # status
        /\ directory' = update_tenant_status(directory, t, status,
                                              StatusReasonGiven(status), now)
    /\ UNCHANGED <<stores, enable_audit_logging, next_id, calls, ex,
                   tenant_context_var, req,
                   cache, now>>

MWInit ==
    /\ directory = [t \in TenantIds |-> Tenant(t, "active")]
    /\ stores = [d \in DbNames |-> <<>>]
    /\ enable_audit_logging = TRUE
    /\ next_id = 1
    /\ calls = 0
    /\ ex = [e \in Execs |-> IdleExec]
    /\ tenant_context_var = [r \in Requests |-> None]
    /\ req = [r \in Requests |-> IdleReq]
    /\ cache = [k \in CacheKeys |-> None]
    /\ now = 0

MWNext ==
    \/ \E r \in Requests :
        \/ Arrive(r)
        \/ Identify(r)
        \/ IdentifyFails(r)
        \/ HandlerRead(r)
        \/ HandlerReturns(r)
        \/ HandlerRaises(r)
        \/ PlatformReturns(r)
        \/ Complete(r)
    \/ UpdateTenantStatus

SpecMW == MWInit /\ [][MWNext]_vars

----------------------------------------------------------------------------
(* Properties of context propagation, checked under SpecMW *)

\* C1: while a request is with its handler, get_tenant_context returns the
\* TenantContext of the tenant that request resolved to, now and at every
\* read the handler has made, whatever the other requests are doing.
C1_Isolation ==
    \A r \in Requests :
        req[r].pc = "handler" =>
            /\ get_tenant_context(tenant_context_var, r) = TenantContext(req[r].tenant)
            /\ req[r].reads > 0 => req[r].seen = TenantContext(req[r].tenant)

\* Two requests of different tenants are with their handlers and have read
C1_Witness ==
    /\ \A r \in Requests : req[r].pc = "handler" /\ req[r].reads > 0
    /\ req[1].tenant.tenant_id # req[2].tenant.tenant_id

\* C2: once dispatch has finished, on whatever path, the request's context
\* holds no tenant context.
C2_ClearedOnExit ==
    \A r \in Requests :
        req[r].pc = "finished" => get_tenant_context(tenant_context_var, r) = None

\* A handler raised after the context had been installed for its request
C2_Witness ==
    \E r \in Requests :
        /\ req[r].pc = "finished"
        /\ req[r].outcome = "500"
        /\ req[r].tenant # None

\* C13: the step of dispatch that follows the lookup hands the request to
\* the handler only when the tenant found is active; for a tenant found in
\* any other status the request ends there, with a 503 whose detail is the
\* stored status reason (or with a 500 when the lookup raised), no context
\* installed and the handler not invoked.
C13_StatusGate ==
    [][\A r \in Requests :
          (req[r].pc = "identify" /\ req'[r].pc # "identify") =>
              LET tenant == identify_tenant(directory, req[r].request)
              IN  /\ req'[r].pc = "handler" => (tenant # None /\ tenant.status = "active")
                  /\ (tenant # None /\ tenant.status # "active") =>
                        /\ req'[r].pc = "finished"
                        /\ req'[r].tenant = None
                        /\ get_tenant_context(tenant_context_var', r) = None
                        /\ \/ req'[r].outcome = "500"
                           \/ /\ req'[r].outcome = "503"
                              /\ req'[r].detail =
                                    IF tenant.status_reason # NoStr
                                    THEN tenant.status_reason
                                    ELSE "Tenant is not active"]_vars

\* A request of a suspended tenant was rejected with the stored reason, and
\* one of a tenant that never had a reason with the default text
C13_Witness ==
    /\ req[1].outcome = "503" /\ req[1].detail = "non-payment"
    /\ req[2].outcome = "503" /\ req[2].detail = "Tenant is not active"
    /\ \A r \in Requests : get_tenant_context(tenant_context_var, r) = None

\* Every strategy misses for the request: no tenant has its header as id,
\* and its host, if any, yields no tenant's subdomain and is no tenant's
\* custom domain
AllMiss(request) ==
    /\ \A t \in TenantIds : directory[t].tenant_id # request.header
    /\ request.host # <<>> =>
          \A t \in TenantIds :
              /\ directory[t].subdomain # extract_subdomain(request.host)
              /\ directory[t].primary_domain # request.host

\* C15: when every strategy misses, the step that follows the lookup ends
\* the request as not found (404; 500 when the lookup raised) with no tenant
\* context installed and the handler not invoked.
C15_NotFound ==
    [][\A r \in Requests :
          (req[r].pc = "identify" /\ req'[r].pc # "identify" /\ AllMiss(req[r].request)) =>
              /\ req'[r].pc = "finished"
              /\ req'[r].outcome \in {"404", "500"}
              /\ req'[r].tenant = None
              /\ get_tenant_context(tenant_context_var', r) = None]_vars

\* A request with an unknown header and one with a reserved subdomain were
\* both rejected as not found
C15_Witness ==
    /\ req[1].outcome = "404" /\ req[1].request.header = "zz"
    /\ req[2].outcome = "404" /\ req[2].request.host = <<"www", "app", "com">>
    /\ \A r \in Requests : get_tenant_context(tenant_context_var, r) = None

----------------------------------------------------------------------------
(* Properties of the execution engine, checked under Spec *)

Finished(x) == x.pc = "done"

\* The audit documents with a given log_id, over all tenant databases
EntriesWithId(id) ==
    {<<d, i>> \in DbNames \X (1..MaxCalls + 2) :
        i <= Len(stores[d]) /\ stores[d][i].log_id = id}

\* C3: no exception leaves execute; a call that is over has returned a
\* populated AgentResult.
C3_NeverRaises ==
    \A e \in Execs :
        /\ ex[e].pc # "raised"
        /\ Finished(ex[e]) =>
              /\ ex[e].result # None
              /\ ex[e].result.execution_id = ex[e].execution_id
              /\ ex[e].result.agent_type = ex[e].agent_type
              /\ ex[e].result.status \in FinalStatuses

\* Every attempt raised, the last one an unexpected fault, and execute returned
C3_Witness ==
    \E e \in Execs :
        /\ Finished(ex[e])
        /\ ~ex[e].returned /\ ex[e].fails > 1
        /\ ex[e].result.error = "RuntimeError"

\* C4: a result with status success has an output and no error; a result
\* with any other status has needs_human_review set.
C4_ResultInvariant ==
    \A e \in Execs :
        ex[e].result # None =>
            /\ ex[e].result.status = "success" =>
                  ex[e].result.output # NoStr /\ ex[e].result.error = NoStr
            /\ ex[e].result.status # "success" => ex[e].result.needs_human_review

\* A successful call has returned
C4_Witness ==
    \E e \in Execs : Finished(ex[e]) /\ ex[e].result.status = "success"

\* C5: k raising attempts followed by a returning one give status success
\* and retry_count = k.
C5_RetryCountOnSuccess ==
    \A e \in Execs :
        (Finished(ex[e]) /\ ex[e].returned /\ ValidConfidence(ex[e].op_confidence)) =>
            /\ ex[e].result.status = "success"
            /\ ex[e].result.retry_count = ex[e].fails

\* C6: when every attempt raised, the result has status failed and
\* retry_count = max_retries.
C6_RetryCountOnExhaustion ==
    \A e \in Execs :
        (Finished(ex[e]) /\ ~ex[e].gated /\ ~ex[e].returned) =>
            /\ ex[e].result.status = "failed"
            /\ ex[e].result.retry_count = ex[e].max_retries

\* C7: execute never waits on the operation, its retries and its backoff
\* sleeps for longer than timeout_seconds, and a call whose operation was
\* not over by then returns status timeout.
C7_TimeoutBound ==
    \A e \in Execs :
        /\ ex[e].elapsed <= timeout_seconds
        /\ (ex[e].result # None /\ ex[e].elapsed > timeout_seconds /\ ~ex[e].gated) =>
              ex[e].result.status = "timeout"

\* C8: on a successful result needs_human_review is set exactly when the
\* confidence is below the threshold, and review_reason exactly when
\* needs_human_review is.
C8_ConfidenceGate ==
    \A e \in Execs :
        (ex[e].result # None /\ ex[e].result.status = "success") =>
            /\ ex[e].result.needs_human_review <=>
                  (ex[e].result.confidence < agent_confidence_threshold)
            /\ (ex[e].result.review_reason # NoStr) <=> ex[e].result.needs_human_review

\* A success whose confidence is exactly the threshold passes without review
C8_Witness ==
    \E e \in Execs :
        /\ Finished(ex[e])
        /\ ex[e].result.status = "success"
        /\ ex[e].result.confidence = agent_confidence_threshold
        /\ ~ex[e].result.needs_human_review

\* C9: under a tenant context that has the agent's type disabled, execute
\* never calls _execute_internal and returns a failed result; with audit
\* logging on and the write not failing, that result is in the tenant's
\* audit log.
C9_FeatureGate ==
    \A e \in Execs :
        (ex[e].tenant_context # None
            /\ ~is_agent_enabled(ex[e].tenant_context, ex[e].agent_type)) =>
            /\ ex[e].attempts = 0
            /\ ex[e].pc \notin {"attempt", "backoff"}
            /\ ex[e].result.status = "failed"
            /\ (Finished(ex[e]) /\ enable_audit_logging /\ ex[e].audit # "failed") =>
                  \E i \in 1..Len(stores[ex[e].tenant_context.db]) :
                      /\ stores[ex[e].tenant_context.db][i].log_id = ex[e].execution_id
                      /\ stores[ex[e].tenant_context.db][i].status = "failed"

\* A gated call has returned and its audit entry was written
C9_Witness ==
    \E e \in Execs :
        /\ Finished(ex[e])
        /\ ex[e].gated
        /\ ex[e].audit = "written"
        /\ ex[e].agent_type \notin DOMAIN ex[e].tenant_context.tenant.enabled_agents

\* C10: a call that completed under a tenant context, with audit logging on
\* and the write not failing, has exactly one audit document over all
\* databases; it is in the tenant's own database and carries the result's
\* execution_id, tenant_id, status, confidence, retry_count and
\* needs_human_review.
C10_OneAuditEntry ==
    \A e \in Execs :
        (Finished(ex[e]) /\ ex[e].tenant_context # None
            /\ enable_audit_logging /\ ex[e].audit # "failed") =>
            /\ Cardinality(EntriesWithId(ex[e].execution_id)) = 1
            /\ \A p \in EntriesWithId(ex[e].execution_id) :
                  LET log == stores[p[1]][p[2]]
                      result == ex[e].result
                  IN  /\ p[1] = get_tenant_db_name(ex[e].tenant_id)
                      /\ log.tenant_id = result.tenant_id
                      /\ log.status = result.status
                      /\ log.confidence = result.confidence
                      /\ log.retry_count = result.retry_count
                      /\ log.needs_human_review = result.needs_human_review

\* A call that succeeded after a retry has returned with its entry written,
\* and an earlier call had left an entry in the other tenant's database
C10_Witness ==
    \E e \in Execs :
        /\ Finished(ex[e])
        /\ ex[e].audit = "written"
        /\ ex[e].fails > 0
        /\ ex[e].result.status = "success"
        /\ \E d \in DbNames : d # ex[e].tenant_context.db /\ Len(stores[d]) > 0

\* C18: the status of a result execute has bound is a final one, never
\* pending, running or retrying, and so is the status of every audit entry.
C18_FinalStatus ==
    /\ \A e \in Execs :
          ex[e].result # None => ex[e].result.status \notin {"pending", "running", "retrying"}
    /\ \A d \in DbNames : \A i \in 1..Len(stores[d]) :
          stores[d][i].status \notin {"pending", "running", "retrying"}

\* A call that went through a retry has returned a failed result
C18_Witness ==
    \E e \in Execs :
        /\ Finished(ex[e])
        /\ ex[e].attempts >= 2
        /\ ex[e].result.status = "failed"

\* C20: the feature gate of a call under a tenant context blocks exactly
\* when the agent type is not a key of the tenant's enabled_agents map or
\* the map holds false for it; starting the call changes neither the tenant
\* record in the directory nor the context the call runs under.
C20_IsAgentEnabled ==
    [][\A e \in Execs :
          (ex[e].pc = "idle" /\ ex'[e].pc # "idle" /\ ex'[e].tenant_context # None) =>
              LET ctx == ex'[e].tenant_context
                  m == ctx.tenant.enabled_agents
                  a == ex'[e].agent_type
                  stored == IF a \in DOMAIN m THEN m[a] ELSE FALSE
              IN  /\ ex'[e].gated = ~stored
                  /\ directory' = directory
                  /\ ctx = TenantContext(directory[ctx.tenant.tenant_id])]_vars

\* A call for an agent type that is not a key of the map has been blocked
C20_Witness ==
    \E e \in Execs :
        /\ ex[e].tenant_context # None
        /\ ex[e].agent_type \notin DOMAIN ex[e].tenant_context.tenant.enabled_agents
        /\ ex[e].gated

----------------------------------------------------------------------------
(* Tenant resolution with a redis client: SpecCache *)

cache_ttl == 300
TickSeconds == 200
MaxNow == 500

\* str(tenant.model_dump()), line 255: the text of the repr of the dict
model_dump_str(tenant) == [kind |-> "str", repr_of |-> tenant]

\* The fields whose values have a repr that eval cannot turn back into the
\* value: status is a member of the str-Enum TenantStatus, whose repr is
\* <TenantStatus.ACTIVE: 'active'>, and updated_at is a datetime, whose repr
\* is datetime.datetime(...), a name the middleware module does not import
NoNonLiteralFields == {}
NonLiteralFields == {"status", "updated_at"}

\* eval(cached_data) and Tenant(**tenant_dict), lines 233-234; None when
\* eval raises, which except Exception at line 235 logs and passes over
eval_cached_literal(data) == data.repr_of
eval_cached(data) ==
    IF NonLiteralFields \cap DOMAIN data.repr_of # {} THEN None ELSE data.repr_of

\* redis get and setex: an entry is gone once its time to live has passed
redis_get(c, key, at) ==
    IF c[key] # None /\ c[key].expires > at THEN c[key].data ELSE None

redis_setex(c, key, ttl, data, at) ==
    [c EXCEPT ![key] = [data |-> data, expires |-> at + ttl]]

\* Requests that carry the X-Tenant-ID header of a tenant and no Host
CacheHeaders == {"t1"}
CacheRequests ==
    {[path |-> "/agents", header |-> h, host |-> <<>>] : h \in CacheHeaders}

\* dispatch is entered, lines 71-77, and _identify_tenant calls
\* _get_tenant_cached(header, by="id")
CacheArrive(r) ==
    /\ req[r].pc = "idle"
    /\ \E request \in CacheRequests :
        req' = [req EXCEPT ![r] = [IdleReq EXCEPT
                    !.request = request,
                    !.pc = "cache_get",
                    !.arrived_at = now,
                    !.arrived_status = IF request.header \in TenantIds
                                       THEN directory[request.header].status
                                       ELSE NoStr]]
    /\ UNCHANGED <<directory, stores, enable_audit_logging, next_id, calls, ex,
                   tenant_context_var, cache, now>>

\* What the cache read found: no entry, an entry that is the directory's
\* record, or one that differs from it
Found(data, dir) ==
    IF data = None THEN "none"
    ELSE IF data.repr_of = dir[data.repr_of.tenant_id] THEN "fresh"
    ELSE "stale"

\* Lines 229-236 and 79-125: the cache read; a live entry that eval turns
\* into a Tenant is returned and dispatched, anything else (no entry, an
\* entry eval raises on, a redis error) leads to the directory read
CacheGet(r) ==
    /\ req[r].pc = "cache_get"
    /\ \E data \in {redis_get(cache, cache_key("id", req[r].request.header), now), None} :
        LET tenant == IF data = None THEN None ELSE eval_cached(data)
        IN  IF tenant # None
            THEN Dispatch(r, tenant)
            ELSE /\ req' = [req EXCEPT ![r].cached = Found(data, directory),
                                       ![r].pc = "identify"]
                 /\ UNCHANGED tenant_context_var
    /\ UNCHANGED <<directory, stores, enable_audit_logging, next_id, calls, ex,
                   cache, now>>

\* Lines 238-246: the directory read; a miss ends _identify_tenant, as
\* there is no Host to try, and dispatch answers 404
DbRead(r) ==
    /\ req[r].pc = "identify"
    /\ LET tenant == get_tenant_by_id(directory, req[r].request.header)
       IN  IF tenant = None
           THEN Dispatch(r, None)
           ELSE /\ req' = [req EXCEPT ![r].resolved = tenant, ![r].pc = "cache_set"]
                /\ UNCHANGED tenant_context_var
    /\ UNCHANGED <<directory, stores, enable_audit_logging, next_id, calls, ex,
                   cache, now>>

\* Lines 249-260 and 79-125: setex with the time to live, a failure logged
\* and passed over; the tenant read is returned and dispatched
CacheSet(r) ==
    /\ req[r].pc = "cache_set"
    /\ \/ cache' = redis_setex(cache, cache_key("id", req[r].request.header),
                                cache_ttl, model_dump_str(req[r].resolved), now)
       \/ cache' = cache
    /\ Dispatch(r, req[r].resolved)
    /\ UNCHANGED <<directory, stores, enable_audit_logging, next_id, calls, ex, now>>

\* Time passes; redis drops the entries whose time to live has passed
Tick ==
    /\ now + TickSeconds <= MaxNow
    /\ now' = now + TickSeconds
    /\ cache' = [k \in CacheKeys |->
                    IF cache[k] # None /\ cache[k].expires <= now' THEN None ELSE cache[k]]
    /\ UNCHANGED <<directory, stores, enable_audit_logging, next_id, calls, ex,
                   tenant_context_var, req>>

\* The platform admin changes the status of a tenant that is not suspended;
\* a suspended tenant stays suspended
CacheStatuses == {"active", "migrating", "suspended"}

CacheUpdateTenantStatus ==
    /\ \E t \in TenantIds \cap CacheHeaders, status \in CacheStatuses :
        /\ directory[t].status \notin {status, "suspended"}
        /\ directory' = update_tenant_status(directory, t, status,
                                              StatusReasonGiven(status), now)
    /\ UNCHANGED <<stores, enable_audit_logging, next_id, calls, ex,
                   tenant_context_var, req, cache, now>>

CacheNext ==
    \/ \E r \in Requests :
        \/ CacheArrive(r)
        \/ CacheGet(r)
        \/ DbRead(r)
        \/ IdentifyFails(r)
        \/ CacheSet(r)
        \/ HandlerReturns(r)
        \/ Complete(r)
    \/ Tick
    \/ CacheUpdateTenantStatus

SpecCache == MWInit /\ [][CacheNext]_vars

ResolvedRecord(r) ==
    IF req[r].pc = "handler" THEN req[r].tenant
    ELSE IF req[r].pc = "cache_set" THEN req[r].resolved
    ELSE None

\* C17: a request that arrived more than one time to live after the last
\* update of its tenant's record is resolved with the record as the
\* directory has it, however resolutions of other requests (directory
\* read, cache write) interleave with the update.
C17_FreshAfterTTL ==
    \A r \in Requests :
        (/\ ResolvedRecord(r) # None
         /\ directory[ResolvedRecord(r).tenant_id].updated_at + cache_ttl < req[r].arrived_at) =>
            ResolvedRecord(r) = directory[ResolvedRecord(r).tenant_id]

\* A request that arrived more than one time to live after the last update
\* found a live cache entry older than the update (written after the update
\* by a resolution that had read the directory before it) and is with the
\* handler
C17_Witness ==
    \E r \in Requests :
        /\ req[r].pc = "handler"
        /\ req[r].cached = "stale"
        /\ directory[req[r].tenant.tenant_id].updated_at + cache_ttl < req[r].arrived_at

----------------------------------------------------------------------------
(* _identify_tenant as a function of the request: SpecResolve *)

\* The lookups _identify_tenant makes for a request, in the order made
identify_lookups(dir, request) ==
    LET by_header == IF request.header # NoStr
                     THEN get_tenant_by_id(dir, request.header) ELSE None
        subdomain == extract_subdomain(request.host)
        by_subdomain == IF subdomain # NoStr
                        THEN get_tenant_by_subdomain(dir, subdomain) ELSE None
        l1 == IF request.header # NoStr THEN <<"id">> ELSE <<>>
        l2 == IF subdomain # NoStr THEN Append(l1, "subdomain") ELSE l1
    IN  IF by_header # None THEN l1
        ELSE IF request.host = <<>> THEN l1
        ELSE IF by_subdomain # None THEN l2
        ELSE Append(l2, "domain")

\* The Host headers and the custom domains of tenant t1 tried
ResolveHosts ==
    {<<>>, <<"localhost">>, <<"127", "0", "0", "1">>, <<"t1">>,
     <<"t1", "app", "com">>, <<"t2", "app", "com">>, <<"zz", "app", "com">>,
     <<"www", "app", "com">>, <<"clinic", "com">>, <<"my_clinic", "app", "com">>}
ResolveDomains == {<<"clinic", "com">>, <<"t2", "app", "com">>}

ResolveRequests ==
    {[path |-> "/agents", header |-> h, host |-> host] : h \in Headers, host \in ResolveHosts}

ResolveInit ==
    /\ \E d \in ResolveDomains :
          directory = [t \in TenantIds |->
                          IF t = "t1" THEN [Tenant(t, "active") EXCEPT !.primary_domain = d]
                          ELSE Tenant(t, "active")]
    /\ stores = [d \in DbNames |-> <<>>]
    /\ enable_audit_logging = TRUE
    /\ next_id = 1
    /\ calls = 0
    /\ ex = [e \in Execs |-> IdleExec]
    /\ tenant_context_var = [r \in Requests |-> None]
    /\ req \in [Requests -> {[IdleReq EXCEPT !.request = q, !.pc = "identify"] :
                                q \in ResolveRequests}]
    /\ cache = [k \in CacheKeys |-> None]
    /\ now = 0

\* _identify_tenant returns
Resolve(r) ==
    /\ req[r].pc = "identify"
    /\ req' = [req EXCEPT ![r].pc = "resolved",
                          ![r].tenant = identify_tenant(directory, req[r].request),
                          ![r].lookups = identify_lookups(directory, req[r].request),
                          ![r].candidate = extract_subdomain(req[r].request.host)]
    /\ UNCHANGED <<directory, stores, enable_audit_logging, next_id, calls, ex,
                   tenant_context_var, cache, now>>

ResolveNext == \E r \in Requests : Resolve(r)

SpecResolve == ResolveInit /\ [][ResolveNext]_vars

\* The tenants a strategy matches for a request
HeaderMatches(request) == {t \in TenantIds : directory[t].tenant_id = request.header}
SubdomainMatches(request) ==
    {t \in TenantIds : /\ request.host # <<>>
                       /\ directory[t].subdomain = extract_subdomain(request.host)}
DomainMatches(request) ==
    {t \in TenantIds : /\ request.host # <<>>
                       /\ directory[t].primary_domain = request.host}

\* C16: the tenant returned is the one the header names if it exists,
\* whatever the host; else the one whose subdomain the host carries; else
\* the one whose custom domain the host is; else none. The lookups are made
\* in the order id, subdomain, domain, and none is made after one matched.
C16_StrategyOrder ==
    \A r \in Requests :
        req[r].pc = "resolved" =>
            LET q == req[r].request
                l == req[r].lookups
            IN  /\ l \in {<<>>, <<"id">>, <<"subdomain">>, <<"domain">>,
                           <<"id", "subdomain">>, <<"id", "domain">>,
                           <<"subdomain", "domain">>, <<"id", "subdomain", "domain">>}
                /\ IF HeaderMatches(q) # {}
                   THEN /\ req[r].tenant # None
                        /\ req[r].tenant.tenant_id \in HeaderMatches(q)
                        /\ l = <<"id">>
                   ELSE IF SubdomainMatches(q) # {}
                   THEN /\ req[r].tenant # None
                        /\ req[r].tenant.tenant_id \in SubdomainMatches(q)
                        /\ l[Len(l)] = "subdomain"
                   ELSE IF DomainMatches(q) # {}
                   THEN /\ req[r].tenant # None
                        /\ req[r].tenant.tenant_id \in DomainMatches(q)
                        /\ l[Len(l)] = "domain"
                   ELSE req[r].tenant = None

\* A header naming t2 won over a host carrying t1's subdomain, and a host
\* carrying t2's subdomain that is also t1's custom domain resolved to t2
\* without the custom-domain lookup
C16_Witness ==
    /\ req[1].pc = "resolved"
    /\ req[1].request.header = "t2" /\ req[1].request.host = <<"t1", "app", "com">>
    /\ req[1].tenant.tenant_id = "t2"
    /\ req[2].pc = "resolved"
    /\ req[2].request.header = "zz" /\ req[2].request.host = <<"t2", "app", "com">>
    /\ directory["t1"].primary_domain = <<"t2", "app", "com">>
    /\ req[2].tenant.tenant_id = "t2"
    /\ req[2].lookups = <<"id", "subdomain">>

\* C24: a call of an agent whose configured maximum is N invokes
\* _execute_internal at most N times, and exactly N times when every
\* attempt has failed.
C24_AttemptBound ==
    \A e \in Execs :
        /\ ex[e].attempts <= ex[e].max_retries
        /\ (Finished(ex[e]) /\ ~ex[e].gated /\ ex[e].fails = ex[e].attempts) =>
              ex[e].attempts = ex[e].max_retries

\* C28: the agent uses the max_retries it was constructed with, 0
\* included, and the configuration default only when none was given.
C28_ExplicitArgument ==
    \A e \in Execs :
        ex[e].pc # "idle" =>
            ex[e].max_retries = IF ex[e].max_retries_arg = NotProvided
                                THEN agent_max_retries
                                ELSE ex[e].max_retries_arg

\* C29: the confidence of a result is within [0, 1]; when the operation
\* returned a confidence outside it, execute does not raise and the result
\* is a failed one with confidence 0 and needs_human_review set.
C29_ConfidenceRange ==
    \A e \in Execs :
        /\ ex[e].pc # "raised"
        /\ ex[e].result # None =>
              /\ ex[e].result.confidence >= 0 /\ ex[e].result.confidence <= 100
              /\ (ex[e].returned /\ (ex[e].op_confidence < 0 \/ ex[e].op_confidence > 100)) =>
                    /\ ex[e].result.status = "failed"
                    /\ ex[e].result.confidence = 0
                    /\ ex[e].result.needs_human_review

\* The operation returned a confidence above 1 and the call has returned
C29_Witness ==
    \E e \in Execs :
        /\ Finished(ex[e])
        /\ ex[e].returned
        /\ ex[e].op_confidence > 100
        /\ ex[e].result.status = "failed"

\* C30: a call made with no tenant context is not gated and runs the
\* operation; its result carries no tenant_id, and none of its steps
\* writes an audit entry or changes a usage counter.
C30_NoContext ==
    [][\A e \in Execs :
          (ex'[e].pc # "idle" /\ ex'[e].tenant_context = None) =>
              /\ ~ex'[e].gated
              /\ ex'[e].pc \notin {"audit", "metrics"}
              /\ ex'[e].result # None =>
                    (ex'[e].attempts >= 1 /\ ex'[e].result.tenant_id = NoStr)
              /\ stores' = stores
              /\ directory' = directory]_vars

\* A call with no tenant context has run the operation and is over for
\* every agent type, t2's disabled ones included
C30_Witness ==
    \E e \in Execs :
        /\ Finished(ex[e])
        /\ ex[e].tenant_context = None
        /\ ex[e].attempts >= 1
        /\ ex[e].result.status = "success"
        /\ ex[e].audit = "none" /\ ex[e].metrics = "none"

----------------------------------------------------------------------------
(* Cancellation of an execute call in flight: SpecCancel *)

\* The caller cancels the task while execute is suspended at one of its
\* awaits: asyncio raises CancelledError there. It is a BaseException, so
\* neither the except clauses of the try block (attempt, backoff) nor the
\* except Exception around the audit write and the increment take it
Cancel(e) ==
    /\ ex[e].pc \in {"attempt", "backoff", "audit", "metrics"}
    /\ IF ex[e].pc \in {"attempt", "backoff"}
       THEN Bind(e, ex[e], HandleException(ex[e], "CancelledError"))
       ELSE ex' = [ex EXCEPT ![e].pc =
                       IF ExceptClause("CancelledError") = "Exception"
                       THEN IF ex[e].pc = "audit" THEN OnAuditFailure ELSE OnMetricsFailure
                       ELSE "raised"]
    /\ UNCHANGED <<directory, stores, enable_audit_logging, next_id, calls,
                   tenant_context_var, req, cache, now>>

\* The CancelledError has reached the caller; the call is over
Propagated(e) ==
    /\ ex[e].pc = "raised"
    /\ ex' = [ex EXCEPT ![e] = IdleExec]
    /\ UNCHANGED <<directory, stores, enable_audit_logging, next_id, calls,
                   tenant_context_var, req, cache, now>>

CancelNext ==
    \E e \in Execs :
        \/ ExecuteStart(e)
        \/ Attempt(e)
        \/ Backoff(e)
        \/ Audit(e)
        \/ Metrics(e)
        \/ Return(e)
        \/ Cancel(e)
        \/ Propagated(e)

SpecCancel == Init /\ [][CancelNext]_vars

\* C19: a call that was cancelled in flight has ended with a result whose
\* status is cancelled, and, under a tenant context with audit logging on,
\* with an audit entry of that status.
C19_CancelledStatus ==
    \A e \in Execs :
        ex[e].pc = "raised" =>
            /\ ex[e].result # None
            /\ ex[e].result.status = "cancelled"
            /\ (ex[e].tenant_context # None /\ enable_audit_logging) =>
                  \E i \in 1..Len(stores[ex[e].tenant_context.db]) :
                      /\ stores[ex[e].tenant_context.db][i].log_id = ex[e].execution_id
                      /\ stores[ex[e].tenant_context.db][i].status = "cancelled"

\* C25: the subdomain candidate of a host is none when the host is
\* localhost, numeric, without a dot or led by www, api or admin, and is the
\* host's first label for every other host; with no candidate there is no
\* subdomain lookup.
C25_SubdomainCandidate ==
    \A r \in Requests :
        req[r].pc = "resolved" =>
            LET host == req[r].request.host
                excluded == \/ host = <<"localhost">>
                            \/ (host # <<>> /\ \A i \in 1..Len(host) : host[i] \in DigitLabels)
                            \/ Len(host) < 2
                            \/ host[1] \in {"www", "api", "admin"}
            IN  /\ req[r].candidate = IF excluded THEN NoStr ELSE host[1]
                /\ excluded => \A i \in 1..Len(req[r].lookups) : req[r].lookups[i] # "subdomain"

\* C27 as claimed: a request with no tenant header whose host is a
\* tenant's custom domain is resolved to that tenant, whatever the
\* subdomains of the other tenants.
C27_CustomDomainWins ==
    \A r \in Requests :
        (/\ req[r].pc = "resolved"
         /\ req[r].request.header = NoStr
         /\ DomainMatches(req[r].request) # {}) =>
            /\ req[r].tenant # None
            /\ req[r].tenant.tenant_id \in DomainMatches(req[r].request)

\* C27 as amended: a request with no tenant header whose host is a
\* tenant's custom domain is resolved to that tenant unless the host's
\* subdomain candidate is some tenant's subdomain, and then to the tenant of
\* that subdomain.
C27_CustomDomainUnlessSubdomain ==
    \A r \in Requests :
        (/\ req[r].pc = "resolved"
         /\ req[r].request.header = NoStr
         /\ DomainMatches(req[r].request) # {}) =>
            /\ req[r].tenant # None
            /\ req[r].tenant.tenant_id \in
                  IF SubdomainMatches(req[r].request) # {}
                  THEN SubdomainMatches(req[r].request)
                  ELSE DomainMatches(req[r].request)

\* A request with no header on t1's custom domain, whose first label is
\* nobody's subdomain, was resolved to t1 by the custom-domain lookup
C27_Witness ==
    \E r \in Requests :
        /\ req[r].pc = "resolved"
        /\ req[r].request.header = NoStr
        /\ req[r].request.host = directory["t1"].primary_domain
        /\ req[r].lookups = <<"subdomain", "domain">>
        /\ req[r].tenant # None
        /\ req[r].tenant.tenant_id = "t1"

----------------------------------------------------------------------------
(* Concurrent execute calls: SpecConc *)

\* Two calls run concurrently, each once, for agents built with
\* max_retries=1, under a tenant context or none
ConcExecs == {"c1", "c2"}
ConcMaxRetriesArgs == {1}

ConcStart(e) ==
    /\ ex[e].pc = "idle"
    /\ \E agent_type \in AgentTypes, arg \in ConcMaxRetriesArgs,
          context \in InstalledContexts :
        StartWith(e, agent_type, arg, context)
    /\ UNCHANGED <<directory, stores, enable_audit_logging, tenant_context_var, req,
                   cache, now>>

ConcInit ==
    /\ directory = [t \in TenantIds |-> Tenant(t, "active")]
    /\ stores = [d \in DbNames |-> <<>>]
    /\ enable_audit_logging = TRUE
    /\ next_id = 1
    /\ calls = 0
    /\ ex = [e \in ConcExecs |-> IdleExec]
    /\ tenant_context_var = [r \in Requests |-> None]
    /\ req = [r \in Requests |-> IdleReq]
    /\ cache = [k \in CacheKeys |-> None]
    /\ now = 0

ConcNext ==
    \E e \in ConcExecs :
        \/ ConcStart(e)
        \/ Attempt(e)
        \/ Backoff(e)
        \/ Audit(e)
        \/ Metrics(e)

SpecConc == ConcInit /\ [][ConcNext]_vars

\* The calls that have incremented the counter of tenant t
Incremented(t) ==
    {e \in ConcExecs : ex[e].tenant_id = t /\ ex[e].metrics = "incremented"}

\* C12: the usage counter of every tenant equals the number of calls made
\* under its context whose increment went through, whatever their status
\* and however the calls interleave; a call that is over under a tenant
\* context has made its increment unless the increment failed.
C12_CounterPerCall ==
    /\ \A t \in TenantIds :
          directory[t].total_agent_actions = Cardinality(Incremented(t))
    /\ \A e \in ConcExecs :
          (Finished(ex[e]) /\ ex[e].tenant_context # None /\ ex[e].metrics # "failed") =>
              ex[e].metrics = "incremented"

\* Two calls of the same tenant with different statuses are over, the
\* counter is at 2 and the other tenant's at 0
C12_Witness ==
    /\ \A e \in ConcExecs : Finished(ex[e]) /\ ex[e].tenant_id = "t1"
    /\ ex["c1"].result.status = "success"
    /\ ex["c2"].result.status = "timeout"
    /\ directory["t1"].total_agent_actions = 2
    /\ directory["t2"].total_agent_actions = 0

\* C11: neither the audit step nor the counter step changes the result that
\* was bound before them, whether the write succeeds or fails; after the
\* audit step, failed or not, execute is at the counter increment, and after
\* the counter step, failed or not, it returns.
C11_BestEffortWrites ==
    [][\A e \in Execs :
          /\ ex[e].pc = "audit" =>
                ex'[e].pc = "metrics" /\ ex'[e].result = ex[e].result
          /\ ex[e].pc = "metrics" =>
                ex'[e].pc = "done" /\ ex'[e].result = ex[e].result]_vars

\* A successful call has returned although both writes failed
C11_Witness ==
    \E e \in Execs :
        /\ Finished(ex[e])
        /\ ex[e].audit = "failed"
        /\ ex[e].metrics = "failed"
        /\ ex[e].result.status = "success"

----------------------------------------------------------------------------
(* Review of audit entries: AgentAuditService.mark_reviewed, reached through
   POST /executions/{execution_id}/review *)

MaxEntries == 2

\* current_user.user_id of the reviewing users, and the notes they may give
Reviewers == {"m1", "m2"}
ReviewNotes == {NoStr, "checked"}

\* A datetime value, as opposed to None
Datetime(t) == [kind |-> "datetime", at |-> t]

\* The entry update_one({"log_id": log_id}, ...) picks: the first one of the
\* collection with that log_id, 0 when there is none
FirstWithLogId(entries, log_id) ==
    LET hits == {i \in 1..Len(entries) : entries[i].log_id = log_id}
    IN  IF hits = {} THEN 0 ELSE CHOOSE i \in hits : \A j \in hits : i <= j

\* AgentAuditService.mark_reviewed: $set of reviewed_by, reviewed_at,
\* review_notes and needs_human_review on the entry with that log_id
mark_reviewed_all(st, log_id, reviewed_by, review_notes, db, at) ==
    [st EXCEPT ![db] = [i \in 1..Len(@) |->
        [@[i] EXCEPT !.reviewed_by = reviewed_by,
                     !.reviewed_at = Datetime(at),
                     !.review_notes = review_notes,
                     !.needs_human_review = FALSE]]]
mark_reviewed(st, log_id, reviewed_by, review_notes, db, at) ==
    LET i == FirstWithLogId(st[db], log_id)
    IN  IF i = 0 THEN st
        ELSE [st EXCEPT ![db][i] =
                [@ EXCEPT !.reviewed_by = reviewed_by,
                          !.reviewed_at = Datetime(at),
                          !.review_notes = review_notes,
                          !.needs_human_review = FALSE]]

\* An execution of a tenant's agent ends and _log_to_audit writes its entry:
\* a success of high or of low confidence, or a failure
ReviewCreateLog ==
    /\ next_id <= MaxEntries
    /\ \E t \in TenantIds, confidence \in {84, 90}, failed \in BOOLEAN :
        LET x == [IdleExec EXCEPT
                    !.agent_type = "insurance_verification",
                    !.tenant_context = TenantContext(directory[t]),
                    !.tenant_id = t,
                    !.started_at = now,
                    !.execution_id = next_id]
            result == IF failed THEN ErrorResult(x, "RuntimeError")
                      ELSE SuccessResult(x, "out", confidence)
        IN  stores' = create_log(stores, AuditLogOf(result), AuditDb(x))
    /\ next_id' = next_id + 1
    /\ UNCHANGED <<directory, enable_audit_logging, calls, ex, tenant_context_var,
                   req, cache, now>>

\* mark_execution_reviewed: a user of a tenant marks the entry with the given
\* id in that tenant's database as reviewed
MarkReviewed ==
    /\ \E db \in DbNames, log_id \in 1..MaxEntries,
          reviewed_by \in Reviewers, review_notes \in ReviewNotes :
        stores' = mark_reviewed(stores, log_id, reviewed_by, review_notes, db, now)
    /\ UNCHANGED <<directory, enable_audit_logging, next_id, calls, ex,
                   tenant_context_var, req, cache, now>>

ReviewNext ==
    \/ ReviewCreateLog
    \/ MarkReviewed

SpecReview == MWInit /\ [][ReviewNext]_vars

\* The fields of an audit entry the review sub-record consists of
ReviewFields == {"reviewed_by", "reviewed_at", "review_notes"}

\* The entries of a database that a step changes in a field outside the given set
ChangedOutside(d, fields) ==
    {i \in 1..Len(stores[d]) :
        \/ i > Len(stores'[d])
        \/ \E f \in DOMAIN stores[d][i] \ fields : stores'[d][i][f] # stores[d][i][f]}

\* The entries a step changes at all
Changed == UNION {{<<d, i>> : i \in ChangedOutside(d, {})} : d \in DbNames}

\* C21: once an entry is created, no step changes any of its fields other than
\* reviewed_by, reviewed_at and review_notes, and a step changes at most one entry
C21_OnlyReviewFields ==
    [][/\ \A d \in DbNames : ChangedOutside(d, ReviewFields) = {}
       /\ Cardinality(Changed) <= 1]_vars

\* C21 (amended): once an entry is created, no step changes any of its fields
\* other than reviewed_by, reviewed_at, review_notes and needs_human_review,
\* needs_human_review changes only to false, and a step changes at most one entry
C21_OnlyReviewFieldsAndFlag ==
    [][/\ \A d \in DbNames :
            /\ ChangedOutside(d, ReviewFields \cup {"needs_human_review"}) = {}
            /\ \A i \in ChangedOutside(d, ReviewFields) : ~stores'[d][i].needs_human_review
       /\ Cardinality(Changed) <= 1]_vars

\* A flagged entry has been reviewed, next to an entry of the same database
\* that has not
C21_Witness ==
    \E d \in DbNames : \E i, j \in 1..Len(stores[d]) :
        /\ stores[d][i].reviewed_by # NoStr
        /\ stores[d][i].review_reason # NoStr
        /\ ~stores[d][i].needs_human_review
        /\ stores[d][j].reviewed_by = NoStr

\* C22: an entry is created with an empty review sub-record, and once
\* mark_reviewed has set it no later step changes it
C22_ReviewSetOnce ==
    [][\A d \in DbNames :
        /\ \A i \in 1..Len(stores[d]) :
            stores[d][i].reviewed_by # NoStr =>
                \A f \in ReviewFields : stores'[d][i][f] = stores[d][i][f]
        /\ \A i \in (Len(stores[d]) + 1)..Len(stores'[d]) :
            /\ stores'[d][i].reviewed_by = NoStr
            /\ stores'[d][i].reviewed_at = None
            /\ stores'[d][i].review_notes = NoStr]_vars

----------------------------------------------------------------------------
(* Listing of audit entries: AgentAuditService.list_logs *)

\* The users executions run for, and the times executions start at
ListUsers == {"u1", "u2"}
ListTimes == {0, TickSeconds}

\* An Optional[bool] argument that is given
Some(v) == [kind |-> "Some", value |-> v]

\* Truth value of an Optional[str] argument in `if agent_type:`: None and the
\* empty string are false
Truthy(s) == s # NoStr /\ s # ""

\* The MongoDB query document list_logs builds, applied to one entry
MatchesQuery(entry, q) ==
    /\ Truthy(q.agent_type) => entry.agent_type = q.agent_type
    /\ Truthy(q.user_id) => entry.user_id = q.user_id
    /\ Truthy(q.status) => entry.status = q.status
    /\ q.needs_review # None => entry.needs_human_review = q.needs_review.value
    /\ q.start_date # None => entry.executed_at >= q.start_date.at
    /\ q.end_date # None => entry.executed_at <= q.end_date.at

\* sort("executed_at", DESCENDING): the orders of the given entries in which
\* executed_at never increases; entries of equal executed_at come in any order
SortDescending(entries, idx) ==
    {s \in [1..Cardinality(idx) -> idx] :
        /\ \A i, j \in 1..Cardinality(idx) : i # j => s[i] # s[j]
        /\ \A i, j \in 1..Cardinality(idx) :
            i < j => entries[s[i]].executed_at >= entries[s[j]].executed_at}

\* cursor.skip(n) and cursor.limit(n); a limit of 0 is no limit
CursorSkip(s, n) == SubSeq(s, n + 1, Len(s))
CursorLimit(s, n) == IF n = 0 THEN s ELSE SubSeq(s, 1, Min(n, Len(s)))

\* AgentAuditService.list_logs: the lists the call can return
list_logs(st, q) ==
    LET entries == st[q.db]
        idx == {i \in 1..Len(entries) : MatchesQuery(entries[i], q)}
    IN  {[i \in 1..Len(CursorLimit(CursorSkip(s, q.skip), q.limit)) |->
            entries[CursorLimit(CursorSkip(s, q.skip), q.limit)[i]]] :
         s \in SortDescending(entries, idx)}

\* The arguments of a call of list_logs
ListQueries ==
    [db : DbNames,
     agent_type : {NoStr, "", "insurance_verification"},
     user_id : {NoStr, "u1"},
     status : {NoStr, "failed"},
     needs_review : {None, Some(TRUE), Some(FALSE)},
     start_date : {None, Datetime(TickSeconds)},
     end_date : {None, Datetime(0)},
     skip : 0..1,
     limit : 0..MaxEntries]

\* An execution ends and _log_to_audit writes its entry: a successful
\* insurance verification for user u1 or a failed medical coding for user u2
ListCreateLog ==
    /\ next_id <= MaxEntries
    /\ \A r \in Requests : req[r].pc = "idle"
    /\ \E t \in TenantIds, failed \in BOOLEAN, started_at \in ListTimes :
        LET x == [IdleExec EXCEPT
                    !.agent_type = IF failed THEN "medical_coding"
                                   ELSE "insurance_verification",
                    !.tenant_context = TenantContext(directory[t]),
                    !.tenant_id = t,
                    !.user_id = IF failed THEN "u2" ELSE "u1",
                    !.started_at = started_at,
                    !.execution_id = next_id]
            result == IF failed THEN ErrorResult(x, "RuntimeError")
                      ELSE SuccessResult(x, "out", 90)
        IN  stores' = create_log(stores, AuditLogOf(result), AuditDb(x))
    /\ next_id' = next_id + 1
    /\ UNCHANGED <<directory, enable_audit_logging, calls, ex, tenant_context_var,
                   req, cache, now>>

\* One call of list_logs returns
ListLogs(r) ==
    /\ req[r].pc = "idle"
    /\ \E q \in ListQueries : \E response \in list_logs(stores, q) :
        req' = [req EXCEPT ![r] = [@ EXCEPT !.pc = "listed", !.request = q,
                                            !.response = response]]
    /\ UNCHANGED <<directory, stores, enable_audit_logging, next_id, calls, ex,
                   tenant_context_var, cache, now>>

ListNext ==
    \/ ListCreateLog
    \/ ListLogs(1)

SpecList == MWInit /\ [][ListNext]_vars

\* An entry satisfies every filter the call supplies (a filter is omitted when
\* its argument is None)
SatisfiesSupplied(entry, q) ==
    /\ q.agent_type # NoStr => entry.agent_type = q.agent_type
    /\ q.user_id # NoStr => entry.user_id = q.user_id
    /\ q.status # NoStr => entry.status = q.status
    /\ q.needs_review # None => entry.needs_human_review = q.needs_review.value
    /\ q.start_date # None => entry.executed_at >= q.start_date.at
    /\ q.end_date # None => entry.executed_at <= q.end_date.at

\* C26: list_logs returns entries of the given store only, each satisfying
\* every supplied filter, none twice, in descending order of executed_at,
\* as many as the matches after the first skip ones and at most limit, and
\* they are the matches that follow the first skip ones in that order
C26_ListLogs ==
    \A r \in Requests : req[r].pc = "listed" =>
        LET q == req[r].request
            response == req[r].response
            entries == stores[q.db]
            matches == {i \in 1..Len(entries) : SatisfiesSupplied(entries[i], q)}
            n == Cardinality(matches)
        IN  /\ \A i \in 1..Len(response) :
                \E j \in matches : response[i] = entries[j]
            /\ \A i, j \in 1..Len(response) :
                /\ i # j => response[i].log_id # response[j].log_id
                /\ i < j => response[i].executed_at >= response[j].executed_at
            /\ Len(response) = Min(q.limit, Max(0, n - q.skip))
            /\ Len(response) > 0 =>
                LET first == response[1].executed_at
                    last == response[Len(response)].executed_at
                    Newer(t) == {k \in matches : entries[k].executed_at > t}
                IN  /\ Cardinality(Newer(first)) <= q.skip
                    /\ Cardinality(Newer(first - 1)) > q.skip
                    /\ Cardinality(Newer(last)) < q.skip + Len(response)
                    /\ \A k \in matches :
                        (first > entries[k].executed_at /\ entries[k].executed_at > last)
                            => \E i \in 1..Len(response) : response[i] = entries[k]

----------------------------------------------------------------------------
(* The tenant directory under provisioning, update, migration and
   deprovisioning: TenantProvisioningService and TenantDBService *)

MaxDays == 1
SecondsPerDay == 86400

\* The subdomains tenants are provisioned with or renamed to
ProvSubdomains == {"clinic", "care"}

\* _generate_tenant_id: f"{subdomain}_{timestamp}", the timestamp being the
\* day of the call
generate_tenant_id(subdomain, at) == <<subdomain, at \div SecondsPerDay>>

\* TenantDBService.subdomain_available: no document with that subdomain
subdomain_available(dir, subdomain) ==
    ~\E t \in DOMAIN dir : dir[t].subdomain = subdomain

\* provision_tenant steps 2 to 4: the Tenant object of a new tenant
NewTenant(subdomain, at) ==
    [tenant_id |-> generate_tenant_id(subdomain, at),
     subdomain |-> subdomain,
     primary_domain |-> <<>>,
     status |-> "provisioning",
     status_reason |-> NoStr,
     database_name |-> get_tenant_db_name(generate_tenant_id(subdomain, at)),
     enabled_agents |-> [a \in AgentTypes |-> TRUE],
     total_agent_actions |-> 0,
     updated_at |-> at]

\* The unique indexes on tenant_id and on config.domains.subdomain reject the
\* document: insert_one raises DuplicateKeyError
DuplicateKey(dir, tenant_id, subdomain) ==
    \/ tenant_id \in DOMAIN dir
    \/ \E t \in DOMAIN dir : dir[t].subdomain = subdomain

\* TenantDBService.create_tenant: insert_one
create_tenant(dir, tenant, at) ==
    [t \in DOMAIN dir \cup {tenant.tenant_id} |->
        IF t = tenant.tenant_id THEN [tenant EXCEPT !.updated_at = at] ELSE dir[t]]

\* TenantDBService.hard_delete_tenant: delete_one
hard_delete_tenant(dir, tenant_id) == [t \in DOMAIN dir \ {tenant_id} |-> dir[t]]

\* _create_tenant_database and _delete_tenant_database
create_tenant_database(st, database_name) ==
    [d \in DOMAIN st \cup {database_name} |-> IF d \in DOMAIN st THEN st[d] ELSE <<>>]
delete_tenant_database(st, database_name) == [d \in DOMAIN st \ {database_name} |-> st[d]]

\* TenantDBService.update_tenant with the update the PATCH router builds from a
\* TenantUpdateRequest: the fields of the request that are set, never
\* tenant_id or database_name
update_tenant(dir, tenant_id, update_data, at) ==
    [dir EXCEPT ![tenant_id] =
        [f \in DOMAIN @ |->
            IF f \in DOMAIN update_data THEN update_data[f]
            ELSE IF f = "updated_at" THEN at
            ELSE @[f]]]

\* The TenantUpdateRequest bodies sent: a change of subdomain
UpdateRequests == {[subdomain |-> s] : s \in ProvSubdomains}

\* A request to a platform endpoint ends with the given outcome, and its task
\* with it
ProvFinish(r, outcome) == req' = [req EXCEPT ![r] = IdleReq]

\* POST /platform/tenants, provision_tenant step 1 to 4: the subdomain is
\* checked and the Tenant object built
ProvisionStart(r) ==
    /\ req[r].pc = "idle"
    /\ \E subdomain \in ProvSubdomains :
        IF subdomain_available(directory, subdomain)
        THEN req' = [req EXCEPT ![r] = [IdleReq EXCEPT
                        !.pc = "create_record",
                        !.request = [path |-> "/platform/tenants", subdomain |-> subdomain],
                        !.tenant = NewTenant(subdomain, now)]]
        ELSE ProvFinish(r, "400")
    /\ UNCHANGED <<directory, stores, enable_audit_logging, next_id, calls, ex,
                   tenant_context_var, cache, now>>

\* Step 5: the record is inserted, or the insert raises and provisioning ends
ProvisionCreateRecord(r) ==
    /\ req[r].pc = "create_record"
    /\ IF DuplicateKey(directory, req[r].tenant.tenant_id, req[r].tenant.subdomain)
       THEN /\ ProvFinish(r, "400")
            /\ UNCHANGED directory
       ELSE /\ directory' = create_tenant(directory, req[r].tenant, now)
            /\ req' = [req EXCEPT ![r].pc = "create_database"]
    /\ UNCHANGED <<stores, enable_audit_logging, next_id, calls, ex,
                   tenant_context_var, cache, now>>

\* Step 6: the database is created, or the write raises and the record is
\* deleted again
ProvisionCreateDatabase(r) ==
    /\ req[r].pc = "create_database"
    /\ \/ /\ stores' = create_tenant_database(stores, req[r].tenant.database_name)
          /\ req' = [req EXCEPT ![r].pc = "initialize_schema"]
          /\ UNCHANGED directory
       \/ /\ directory' = hard_delete_tenant(directory, req[r].tenant.tenant_id)
          /\ ProvFinish(r, "500")
          /\ UNCHANGED stores
    /\ UNCHANGED <<enable_audit_logging, next_id, calls, ex,
                   tenant_context_var, cache, now>>

\* Steps 7 and 8: the schema is initialized and the tenant marked active, or
\* create_indexes raises and both the database and the record are deleted
ProvisionInitializeSchema(r) ==
    /\ req[r].pc = "initialize_schema"
    /\ \/ /\ directory' =
                IF req[r].tenant.tenant_id \in DOMAIN directory
                THEN update_tenant_status(directory, req[r].tenant.tenant_id, "active",
                                          "Provisioning completed successfully", now)
                ELSE directory
          /\ ProvFinish(r, "202")
          /\ UNCHANGED stores
       \/ /\ stores' = delete_tenant_database(stores, req[r].tenant.database_name)
          /\ directory' = hard_delete_tenant(directory, req[r].tenant.tenant_id)
          /\ ProvFinish(r, "500")
    /\ UNCHANGED <<enable_audit_logging, next_id, calls, ex,
                   tenant_context_var, cache, now>>

\* PATCH /platform/tenants/{tenant_id}: find_one_and_update; a subdomain
\* another tenant holds is rejected by the unique index
UpdateTenant ==
    /\ \E t \in DOMAIN directory, update_data \in UpdateRequests :
        /\ "subdomain" \in DOMAIN update_data =>
                \A u \in DOMAIN directory \ {t} :
                    directory[u].subdomain # update_data.subdomain
        /\ directory' = update_tenant(directory, t, update_data, now)
    /\ UNCHANGED <<stores, enable_audit_logging, next_id, calls, ex,
                   tenant_context_var, req, cache, now>>

\* DELETE /platform/tenants/{tenant_id}: deprovision_tenant
DeprovisionTenant ==
    /\ \E t \in DOMAIN directory :
        directory' = update_tenant_status(directory, t, "deactivated",
                                          "Tenant deprovisioned", now)
    /\ UNCHANGED <<stores, enable_audit_logging, next_id, calls, ex,
                   tenant_context_var, req, cache, now>>

\* POST /platform/tenants/{tenant_id}/migrate: migrate_tenant_data marks the
\* tenant migrating, copies the collections and marks it active again
MigrateTenantData ==
    /\ \E t \in DOMAIN directory :
        directory' = update_tenant_status(
                        update_tenant_status(directory, t, "migrating",
                                             "Data migration in progress", now),
                        t, "active", "Migration completed successfully", now)
    /\ UNCHANGED <<stores, enable_audit_logging, next_id, calls, ex,
                   tenant_context_var, req, cache, now>>

\* A request for a tenant's subdomain arrives
ProvArrive(r) ==
    /\ req[r].pc = "idle"
    /\ \E subdomain \in ProvSubdomains :
        req' = [req EXCEPT ![r] = [IdleReq EXCEPT
                    !.request = [path |-> "/agents", header |-> NoStr,
                                 host |-> <<subdomain, "app", "com">>],
                    !.pc = "identify"]]
    /\ UNCHANGED <<directory, stores, enable_audit_logging, next_id, calls, ex,
                   tenant_context_var, cache, now>>

\* Lines 77-125: the lookup returns and dispatch runs up to call_next, or ends
\* with a 404 or 503 and the request's task with it
ProvIdentify(r) ==
    /\ req[r].pc = "identify"
    /\ LET tenant == identify_tenant(directory, req[r].request)
       IN  IF tenant # None /\ Serviceable(tenant)
           THEN Dispatch(r, tenant)
           ELSE /\ req' = [req EXCEPT ![r] = IdleReq]
                /\ tenant_context_var' = clear_tenant_context(tenant_context_var, r)
    /\ UNCHANGED <<directory, stores, enable_audit_logging, next_id, calls, ex,
                   cache, now>>

\* call_next returns, the finally clause clears the context and the
\* request's task ends
ProvHandlerReturns(r) ==
    /\ req[r].pc = "handler"
    /\ req' = [req EXCEPT ![r] = IdleReq]
    /\ tenant_context_var' = clear_tenant_context(tenant_context_var, r)
    /\ UNCHANGED <<directory, stores, enable_audit_logging, next_id, calls, ex,
                   cache, now>>

\* The next day begins
NextDay ==
    /\ now < MaxDays * SecondsPerDay
    /\ now' = now + SecondsPerDay
    /\ UNCHANGED <<directory, stores, enable_audit_logging, next_id, calls, ex,
                   tenant_context_var, req, cache>>

\* An empty directory and no tenant database
ProvInit ==
    /\ directory = [t \in {} |-> None]
    /\ stores = [d \in {} |-> <<>>]
    /\ enable_audit_logging = TRUE
    /\ next_id = 1
    /\ calls = 0
    /\ ex = [e \in Execs |-> IdleExec]
    /\ tenant_context_var = [r \in Requests |-> None]
    /\ req = [r \in Requests |-> IdleReq]
    /\ cache = [k \in CacheKeys |-> None]
    /\ now = 0

ProvNext ==
    \/ \E r \in Requests :
        \/ ProvisionStart(r)
        \/ ProvisionCreateRecord(r)
        \/ ProvisionCreateDatabase(r)
        \/ ProvisionInitializeSchema(r)
        \/ ProvArrive(r)
        \/ ProvIdentify(r)
        \/ ProvHandlerReturns(r)
    \/ UpdateTenant
    \/ DeprovisionTenant
    \/ MigrateTenantData
    \/ NextDay

SpecProv == ProvInit /\ [][ProvNext]_vars

\* C23: no two tenant records have the same database_name, and the store
\* handle of the context a request runs under is the store named by the
\* database_name of the tenant the request was resolved to, which is the
\* database_name the directory holds for that tenant while it has its record
C23_OneStorePerTenant ==
    /\ \A t, u \in DOMAIN directory :
        t # u => directory[t].database_name # directory[u].database_name
    /\ \A r \in Requests : req[r].pc = "handler" =>
        /\ get_tenant_context(tenant_context_var, r) # None
        /\ get_tenant_context(tenant_context_var, r).db = req[r].tenant.database_name
        /\ req[r].tenant.tenant_id \in DOMAIN directory =>
                get_tenant_context(tenant_context_var, r).db
                    = directory[req[r].tenant.tenant_id].database_name

\* Two tenants provisioned with the same subdomain on different days, the
\* first one renamed in between, and a request being served for one of them
C23_Witness ==
    /\ \E t, u \in DOMAIN directory :
        /\ t # u
        /\ t[1] = u[1]
        /\ directory[t].status = "active"
        /\ directory[u].status = "active"
    /\ \E r \in Requests :
        /\ req[r].pc = "handler"
        /\ get_tenant_context(tenant_context_var, r) # None

====
